---- MODULE Spec2Model ----
(***************************************************************************)
(* Model of warnet's docker-compose generator                              *)
(* (src/src/warnet/docker_compose.py): get_architecture,                   *)
(* write_bitcoin_configs and generate_docker_compose.                      *)
(*                                                                         *)
(* Python strings that the code inspects character by character (override  *)
(* strings, version strings) are sequences of one-character strings.       *)
(* Python dicts are functions; the dict-of-dicts returned by               *)
(* parse_bitcoin_conf is a function from section names to references into  *)
(* `heap`, so that dict.copy() (a shallow copy) keeps its aliasing.        *)
(***************************************************************************)
EXTENDS Integers, Sequences, FiniteSets, TLC

\* ------------------------------------------------------------------ bounds
MaxNodes == 2
SubnetMax == 2
MaxOptLen == 5

\* --------------------------------------------------------- program constants
DOCKER_COMPOSE_FILE == "docker-compose.yml"
DEFAULT_CONF == <<"bitcoin.conf">>
NETWORK == "regtest"
BaseExporterPort == 8335

\* ------------------------------------------------------ Python str builtins
\* c in s
Contains(s, c) == \E j \in 1..Len(s) : s[j] = c

\* s.index(c): position of the first c
IndexOf(s, c) == CHOOSE j \in 1..Len(s) : s[j] = c /\ \A m \in 1..(j - 1) : s[m] # c

\* s.split(c): every occurrence of c separates two parts (empty parts kept)
RECURSIVE split(_, _)
split(s, c) ==
    IF ~Contains(s, c) THEN <<s>>
    ELSE LET j == IndexOf(s, c)
         IN  <<SubSeq(s, 1, j - 1)>> \o split(SubSeq(s, j + 1, Len(s)), c)

\* The characters str.isspace() holds of: the ASCII ones, and the others
\* under the name of their code point
Whitespace ==
    {" ", "\t", "\n", "\r", "\f", "U+000B", "U+001C", "U+001D", "U+001E", "U+001F",
     "U+0085", "U+00A0", "U+1680", "U+2000", "U+2001", "U+2002", "U+2003", "U+2004",
     "U+2005", "U+2006", "U+2007", "U+2008", "U+2009", "U+200A", "U+2028", "U+2029",
     "U+202F", "U+205F", "U+3000"}

\* s.strip(): leading and trailing whitespace removed
strip(s) ==
    IF \A j \in 1..Len(s) : s[j] \in Whitespace THEN <<>>
    ELSE LET lo == CHOOSE j \in 1..Len(s) :
                       s[j] \notin Whitespace /\ \A m \in 1..(j - 1) : s[m] \in Whitespace
             hi == CHOOSE j \in 1..Len(s) :
                       s[j] \notin Whitespace /\ \A m \in (j + 1)..Len(s) : s[m] \in Whitespace
         IN  SubSeq(s, lo, hi)

\* ----------------------------------------------------------- architecture
\* Python None / a str value
NoneValue == [some |-> FALSE, val |-> ""]
Some(v) == [some |-> TRUE, val |-> v]

\* get_architecture(): `uname -m` output, stripped, arm64 renamed; None only
\* when subprocess.run raises (the `arch is not None` test is always true).
get_architecture(uname_result) ==
    IF uname_result.raises THEN NoneValue
    ELSE IF uname_result.stdout = "arm64" THEN Some("aarch64")
    ELSE Some(uname_result.stdout)

\* f"{arch}" inside an f-string: None formats as the text "None"
FormatArch(a) == IF a.some THEN a.val ELSE "None"

\* ------------------------------------------------- configuration overlay
EmptyDict == [x \in {} |-> <<>>]

\* set_option as dict.setdefault would do it: an old key keeps its value
set_option_keep(sec, key, value) ==
    [x \in DOMAIN sec \cup {key} |-> IF x \in DOMAIN sec THEN sec[x] ELSE value]

\* d[key] = value on a Python dict: a new key is added, an old one overwritten
set_option(sec, key, value) ==
    [x \in DOMAIN sec \cup {key} |-> IF x = key THEN value ELSE sec[x]]

\* The loop over node_options. `hasSec` says whether node_conf has the NETWORK
\* section, `sec` is that section's dict. Yields the dict as the loop leaves
\* it and the exception that ended the loop, if any:
\*   ValueError  "key, value = option.split('=')" with more than two parts
\*   KeyError    node_conf[NETWORK] with no such section
RECURSIVE node_options_loop(_, _, _)
node_options_loop(hasSec, sec, node_options) ==
    IF node_options = <<>> THEN [err |-> "none", sec |-> sec]
    ELSE LET option == strip(Head(node_options))
             parts  == split(option, "=")
         IN  IF option = <<>>
                 THEN node_options_loop(hasSec, sec, Tail(node_options))
             ELSE IF Contains(option, "=") /\ Len(parts) # 2
                 THEN [err |-> "ValueError", sec |-> sec]
             ELSE IF ~hasSec
                 THEN [err |-> "KeyError", sec |-> sec]
             ELSE LET key   == IF Contains(option, "=") THEN parts[1] ELSE option
                      value == IF Contains(option, "=") THEN parts[2] ELSE <<"1">>
                  IN  node_options_loop(hasSec, set_option(sec, key, value),
                                        Tail(node_options))

\* parse_bitcoin_conf: the text of a configuration file becomes a dict of
\* sections, each section a dict object of its own. The objects live in the
\* heap under the section's name; the outer dict holds references to them.
parse_bitcoin_conf(content) ==
    [conf |-> [s \in DOMAIN content |-> s],
     heap |-> [s \in DOMAIN content |-> content[s]]]

\* dump_bitcoin_conf: the text of a dict of sections
dump_bitcoin_conf(conf, h) == [s \in DOMAIN conf |-> h[conf[s]]]

\* node_data.get(name, default)
Get(attr, default) == IF attr.set THEN attr.val ELSE default
Set(v) == [set |-> TRUE, val |-> v]
Unset(v) == [set |-> FALSE, val |-> v]

\* -------------------------------------------------------- version resolver
\* Truth value of a Python str
Truthy(str) == str # ""

\* The test `"/" and "#" in version`: Python reads it as
\* ("/") and ("#" in version).
IsGitBranch(version) == Truthy("/") /\ Contains(version, "#")

NoBuild ==
    [dockerfile |-> "", REPO |-> <<>>, BRANCH |-> <<>>, ARCH |-> NoneValue,
     BITCOIN_VERSION |-> <<>>, BITCOIN_URL |-> <<>>]

BuildFromSource(repo, branch) ==
    [NoBuild EXCEPT !.dockerfile = "Dockerfile_build", !.REPO = repo, !.BRANCH = branch]

\* The URL is the f-string's pieces in order.
BitcoinUrl(version, a) ==
    <<"https://bitcoincore.org/bin/bitcoin-core-", version, "/bitcoin-", version,
      "-", FormatArch(a), "-linux-gnu.tar.gz">>

BuildFromRelease(version, a) ==
    [NoBuild EXCEPT !.dockerfile = "Dockerfile_release", !.ARCH = a,
                    !.BITCOIN_VERSION = version, !.BITCOIN_URL = BitcoinUrl(version, a)]

\* ------------------------------------------------------- address allocator
\* generate_ip_addr(subnet): the addresses a call may return, given the ones
\* already handed out in this run; none left raises.
UsableHosts(hosts) == 1..hosts
generate_ip_addr(hosts, used) == UsableHosts(hosts) \ used

\* ----------------------------------------------------------------- services
Service(name, index, b, volumes, address, port) ==
    [name |-> name, index |-> index, build |-> b, volumes |-> volumes,
     ipv4_address |-> address, port |-> port]

FixedServices ==
    << Service("prometheus", -1, NoBuild, <<>>, 0, 9090),
       Service("node-exporter", -1, NoBuild, <<>>, 0, 0),
       Service("grafana", -1, NoBuild, <<>>, 0, 3000) >>

NodeService(idx, b, conf_file, address) ==
    Service("bitcoin-node", idx, b, <<conf_file>>, address, 0)

ExporterService(idx) ==
    Service("prom-exporter-node", idx, NoBuild, <<>>, 0, BaseExporterPort + idx)

\* The key of a service in the services dict: f"bitcoin-node-{i}" and
\* f"prom-exporter-node-{i}" for the node services, the bare name otherwise.
\* A key is its name and the decimal digits of its index.
RECURSIVE Digits(_)
Digits(n) == IF n < 10 THEN <<n>> ELSE Digits(n \div 10) \o <<n % 10>>
ServiceKey(s) == [name |-> s.name, digits |-> IF s.index < 0 THEN <<>> ELSE Digits(s.index)]

\* Position of a name among the names, as str compares them
\* ('-' sorts before 'e', so "prom-exporter-node-0" < "prometheus")
NameRank(name) ==
    CASE name = "bitcoin-node" -> 1
      [] name = "grafana" -> 2
      [] name = "node-exporter" -> 3
      [] name = "prom-exporter-node" -> 4
      [] name = "prometheus" -> 5

\* a < b for digit strings, character by character as str compares
LexLess(a, b) ==
    \E j \in 1..(Len(a) + 1) :
        /\ \A m \in 1..(j - 1) : m <= Len(b) /\ a[m] = b[m]
        /\ IF j > Len(a) THEN Len(b) >= j ELSE (j <= Len(b) /\ a[j] < b[j])

KeyBefore(s1, s2) ==
    \/ NameRank(s1.name) < NameRank(s2.name)
    \/ /\ s1.name = s2.name
       /\ LexLess(ServiceKey(s1).digits, ServiceKey(s2).digits)

\* yaml.dump(mapping): sort_keys defaults to True, the entries are written in
\* the order of their keys
yaml_dump(svcs) == SortSeq(svcs, KeyBefore)

\* The name of the per-node configuration artifact, config/bitcoin.conf.<id>
NodeConfName(node_id) == <<"bitcoin.conf", node_id>>
CUSTOM_CONF == <<"custom.conf">>

\* -------------------------------------------------------------------- state
VARIABLES
    uname_result,         \* what `uname -m` does: [raises, stdout]
    graph_file,           \* the graphml file: [readable, nodes]
    subnet_hosts,         \* usable addresses of DEFAULT_SUBNET
    config_dir,           \* files under ./config: name -> content
    compose_file,         \* docker-compose.yml: [state, doc]
    remove_refused,       \* os.remove cannot unlink the docker-compose.yml that is there
    entry,                \* the function that was called
    pc,                   \* position in the code
    outcome,              \* "running", "returned", or the exception that ended the run
    arch,                 \* generate_docker_compose: arch
    graph,                \* the loaded graph's nodes, in iteration order
    heap,                 \* section dict objects made by parse_bitcoin_conf
    default_bitcoin_conf, \* write_bitcoin_configs: section -> reference
    node_conf,            \* write_bitcoin_configs: section -> reference
    k,                    \* write_bitcoin_configs: position in graph.nodes
    i,                    \* generate_docker_compose: enumerate index
    conf_file,            \* generate_docker_compose: conf_file of node i
    build,                \* generate_docker_compose: build of node i
    ip_addr,              \* generate_docker_compose: ip_addr of node i
    allocated,            \* addresses generate_ip_addr has returned, in call order
    services,             \* the DockerComposeServicesDict, in insertion order
    prometheus_nodes,     \* argument of generate_prometheus_config, -1 before the call
    dump_raised,          \* yaml.dump raised inside the `with open(...)` block
    trace                 \* the steps taken so far, in order

vars == <<uname_result, graph_file, subnet_hosts, config_dir, compose_file,
          remove_refused, entry,
          pc, outcome, arch, graph, heap, default_bitcoin_conf, node_conf, k, i,
          conf_file, build, ip_addr, allocated, services, prometheus_nodes,
          dump_raised, trace>>

env == <<uname_result, graph_file, subnet_hosts, remove_refused, entry>>

\* --------------------------------------------------------------- the inputs
UnameResults ==
    { [raises |-> TRUE, stdout |-> ""],
      [raises |-> FALSE, stdout |-> "x86_64"],
      [raises |-> FALSE, stdout |-> "arm64"],
      [raises |-> FALSE, stdout |-> ""] }

\* Contents of config/bitcoin.conf: section -> (key -> value)
KeyA == <<"a">>
KeyB == <<"b">>
ValX == <<"x">>
RegtestSections ==
    { EmptyDict,
      [x \in {KeyA} |-> ValX],
      [x \in {KeyB} |-> ValX],
      [x \in {KeyA, KeyB} |-> ValX] }
TemplateWith(sec) == [s \in {NETWORK, "main"} |-> IF s = NETWORK THEN sec ELSE EmptyDict]
TemplateNoRegtest == [s \in {"main"} |-> [x \in {KeyA} |-> ValX]]
Templates == {TemplateWith(sec) : sec \in RegtestSections} \cup {TemplateNoRegtest}
TemplatesSmall == {TemplateWith([x \in {KeyA, KeyB} |-> ValX]), TemplateNoRegtest}

\* ./config before the run: the base template and a user file, each there or not
ConfigDirs(templates) ==
    LET files(t, custom) ==
            [f \in {DEFAULT_CONF} \cup (IF custom THEN {CUSTOM_CONF} ELSE {}) |->
                IF f = DEFAULT_CONF THEN t ELSE TemplateNoRegtest]
        nobase(custom) ==
            [f \in (IF custom THEN {CUSTOM_CONF} ELSE {}) |-> TemplateNoRegtest]
    IN  {files(t, c) : t \in templates, c \in BOOLEAN} \cup {nobase(c) : c \in BOOLEAN}

\* Node attributes of the graph file (version is required by the code)
Node(id, version, bitcoin_config, conf) ==
    [id |-> id, version |-> version, bitcoin_config |-> bitcoin_config, conf |-> conf]

NodeShapes ==
    { \* a release, nothing overridden
      [version |-> <<"v">>, bitcoin_config |-> Unset(<<>>), conf |-> Unset(<<>>)],
      \* a repository and a branch, a flag
      [version |-> <<"r", "/", "r", "#", "b">>, bitcoin_config |-> Set(<<"a">>),
       conf |-> Unset(<<>>)],
      \* '#' without '/', a key with a value, a user configuration file
      [version |-> <<"r", "#", "b">>, bitcoin_config |-> Set(<<"b", "=", "a">>),
       conf |-> Set(CUSTOM_CONF)],
      \* an override token with two '='
      [version |-> <<"v">>, bitcoin_config |-> Set(<<"a", "=", "a", "=", "a">>),
       conf |-> Unset(<<>>)],
      \* a version with two '#'
      [version |-> <<"r", "/", "r", "#", "b", "#", "b">>, bitcoin_config |-> Set(<<>>),
       conf |-> Unset(<<>>)] }

\* Graphs of n nodes; node identifiers are first, first + 1, ...
GraphsOf(n, first) ==
    { [j \in 1..n |-> Node(first + j - 1, g[j].version, g[j].bitcoin_config, g[j].conf)] :
        g \in [1..n -> NodeShapes] }
Graphs == UNION { GraphsOf(n, first) : n \in 0..MaxNodes, first \in {0, 1} }

GraphFiles ==
    { [readable |-> FALSE, nodes |-> <<>>] } \cup
    { [readable |-> TRUE, nodes |-> g] : g \in Graphs }

AbsentFile == [state |-> "absent", doc |-> <<>>]
StaleFile == [state |-> "stale", doc |-> <<>>]

Strings(alphabet, n) == UNION { [1..m -> alphabet] : m \in 0..n }
OptionAlphabet == {"a", "=", ",", " ", "\t"}

\* What both specifications start from
InitLocals ==
    /\ outcome = "running"
    /\ arch = NoneValue
    /\ heap = EmptyDict
    /\ default_bitcoin_conf = EmptyDict
    /\ node_conf = EmptyDict
    /\ k = 0
    /\ i = 0
    /\ conf_file = <<>>
    /\ build = NoBuild
    /\ ip_addr = 0
    /\ allocated = <<>>
    /\ services = <<>>
    /\ prometheus_nodes = -1
    /\ dump_raised = FALSE
    /\ trace = <<>>

\* generate_docker_compose(graph_file) is called
Init ==
    /\ uname_result \in UnameResults
    /\ graph_file \in GraphFiles
    /\ subnet_hosts \in 1..SubnetMax
    /\ config_dir \in ConfigDirs(TemplatesSmall)
    /\ compose_file \in {AbsentFile, StaleFile}
    /\ remove_refused \in (IF compose_file = StaleFile THEN BOOLEAN ELSE {FALSE})
    /\ entry = "generate_docker_compose"
    /\ pc = "get_architecture"
    /\ graph = <<>>
    /\ InitLocals

\* write_bitcoin_configs(graph) is called on a graph of one node
InitConfigs ==
    /\ uname_result = [raises |-> FALSE, stdout |-> "x86_64"]
    /\ graph_file = [readable |-> TRUE, nodes |-> <<>>]
    /\ subnet_hosts = 1
    /\ config_dir \in {d \in ConfigDirs(Templates) : CUSTOM_CONF \notin DOMAIN d}
    /\ compose_file = AbsentFile
    /\ remove_refused = FALSE
    /\ entry = "write_bitcoin_configs"
    /\ pc = "read_default_conf"
    /\ graph \in { <<Node(0, <<"v">>, c, Unset(<<>>))>> :
                     c \in {Unset(<<>>)} \cup
                           {Set(str) : str \in Strings(OptionAlphabet, MaxOptLen)} }
    /\ InitLocals

\* ------------------------------------------------------------------ actions
Ev(step, node) == [step |-> step, node |-> node]

\* An uncaught exception (or sys.exit) ends the run
Raise(exc) == pc' = "done" /\ outcome' = exc

\* write_bitcoin_configs returns: to line 89 of generate_docker_compose, or
\* to whoever called it
ReturnFromConfigs ==
    IF entry = "generate_docker_compose"
    THEN pc' = "prometheus" /\ outcome' = outcome
    ELSE pc' = "done" /\ outcome' = "returned"

\* line 74: arch = get_architecture()
GetArchitecture ==
    /\ pc = "get_architecture"
    /\ arch' = get_architecture(uname_result)
    /\ pc' = "remove"
    /\ trace' = Append(trace, Ev("get_architecture", -1))
    /\ UNCHANGED <<env, config_dir, compose_file, outcome, graph, heap,
                   default_bitcoin_conf, node_conf, k, i, conf_file, build, ip_addr,
                   allocated, services, prometheus_nodes, dump_raised>>

\* lines 80-83: os.remove(DOCKER_COMPOSE_FILE) inside try / bare except: a
\* missing file is no error, and neither is a file that cannot be unlinked
\* (PermissionError, IsADirectoryError): it stays and the run goes on
RemovePrevious ==
    /\ pc = "remove"
    /\ compose_file' = IF remove_refused THEN compose_file ELSE AbsentFile
    /\ pc' = "read_graph"
    /\ trace' = Append(trace, Ev("remove", -1))
    /\ UNCHANGED <<env, config_dir, outcome, arch, graph, heap, default_bitcoin_conf,
                   node_conf, k, i, conf_file, build, ip_addr, allocated, services,
                   prometheus_nodes, dump_raised>>

\* ReadGraph without the call of write_bitcoin_configs after it
ReadGraph_skip_configs ==
    /\ pc = "read_graph"
    /\ trace' = Append(trace, Ev("read_graph", -1))
    /\ IF graph_file.readable
       THEN /\ graph' = graph_file.nodes
            /\ pc' = "prometheus"
            /\ outcome' = outcome
       ELSE /\ graph' = graph
            /\ Raise("OSError")
    /\ UNCHANGED <<env, config_dir, compose_file, arch, heap, default_bitcoin_conf,
                   node_conf, k, i, conf_file, build, ip_addr, allocated, services,
                   prometheus_nodes, dump_raised>>

\* lines 85-86: nx.read_graphml raises on a file it cannot read
ReadGraph ==
    /\ pc = "read_graph"
    /\ trace' = Append(trace, Ev("read_graph", -1))
    /\ IF graph_file.readable
       THEN /\ graph' = graph_file.nodes
            /\ pc' = "read_default_conf"
            /\ outcome' = outcome
       ELSE /\ graph' = graph
            /\ Raise("OSError")
    /\ UNCHANGED <<env, config_dir, compose_file, arch, heap, default_bitcoin_conf,
                   node_conf, k, i, conf_file, build, ip_addr, allocated, services,
                   prometheus_nodes, dump_raised>>

\* lines 43-47: read and parse config/bitcoin.conf, enter the loop over the nodes
ReadDefaultConf ==
    /\ pc = "read_default_conf"
    /\ trace' = Append(trace, Ev("read_default_conf", -1))
    /\ IF DEFAULT_CONF \in DOMAIN config_dir
       THEN LET parsed == parse_bitcoin_conf(config_dir[DEFAULT_CONF])
            IN  /\ default_bitcoin_conf' = parsed.conf
                /\ heap' = parsed.heap
                /\ IF Len(graph) > 0
                   THEN pc' = "copy_conf" /\ outcome' = outcome
                   ELSE ReturnFromConfigs
       ELSE /\ default_bitcoin_conf' = default_bitcoin_conf
            /\ heap' = heap
            /\ Raise("FileNotFoundError")
    /\ k' = 0
    /\ UNCHANGED <<env, config_dir, compose_file, arch, graph, node_conf, i, conf_file,
                   build, ip_addr, allocated, services, prometheus_nodes, dump_raised>>

\* line 49: node_conf = default_bitcoin_conf.copy(): a new outer dict that
\* holds the same section objects
CopyDefaultConf ==
    /\ pc = "copy_conf"
    /\ node_conf' = default_bitcoin_conf
    /\ pc' = "apply_options"
    /\ trace' = Append(trace, Ev("copy_conf", k))
    /\ UNCHANGED <<env, config_dir, compose_file, outcome, arch, graph, heap,
                   default_bitcoin_conf, k, i, conf_file, build, ip_addr, allocated,
                   services, prometheus_nodes, dump_raised>>

\* lines 51-59: the node's override tokens are written into node_conf[NETWORK]
ApplyNodeOptions ==
    /\ pc = "apply_options"
    /\ trace' = Append(trace, Ev("overlay", k))
    /\ LET node_options == split(Get(graph[k + 1].bitcoin_config, <<>>), ",")
           hasSec == NETWORK \in DOMAIN node_conf
           sec == IF hasSec THEN heap[node_conf[NETWORK]] ELSE EmptyDict
           r == node_options_loop(hasSec, sec, node_options)
       IN  /\ heap' = IF hasSec THEN [heap EXCEPT ![node_conf[NETWORK]] = r.sec] ELSE heap
           /\ IF r.err = "none"
              THEN pc' = "write_node_conf" /\ outcome' = outcome
              ELSE Raise(r.err)
    /\ UNCHANGED <<env, config_dir, compose_file, arch, graph, default_bitcoin_conf,
                   node_conf, k, i, conf_file, build, ip_addr, allocated, services,
                   prometheus_nodes, dump_raised>>

\* lines 61-64: dump node_conf to config/bitcoin.conf.<node_id>, next node
WriteNodeConf ==
    /\ pc = "write_node_conf"
    /\ trace' = Append(trace, Ev("write", k))
    /\ LET name == NodeConfName(graph[k + 1].id)
           text == dump_bitcoin_conf(node_conf, heap)
       IN  config_dir' = [f \in DOMAIN config_dir \cup {name} |->
                             IF f = name THEN text ELSE config_dir[f]]
    /\ k' = k + 1
    /\ IF k + 1 < Len(graph)
       THEN pc' = "copy_conf" /\ outcome' = outcome
       ELSE ReturnFromConfigs
    /\ UNCHANGED <<env, compose_file, arch, graph, heap, default_bitcoin_conf,
                   node_conf, i, conf_file, build, ip_addr, allocated, services,
                   prometheus_nodes, dump_raised>>

\* line 89: generate_prometheus_config(len(nodes))
GeneratePrometheusConfig ==
    /\ pc = "prometheus"
    /\ prometheus_nodes' = Len(graph)
    /\ pc' = "fixed_services"
    /\ trace' = Append(trace, Ev("prometheus", -1))
    /\ UNCHANGED <<env, config_dir, compose_file, outcome, arch, graph, heap,
                   default_bitcoin_conf, node_conf, k, i, conf_file, build, ip_addr,
                   allocated, services, dump_raised>>

\* lines 91-129: prometheus, node-exporter and grafana; enter the loop
AddFixedServices ==
    /\ pc = "fixed_services"
    /\ services' = FixedServices
    /\ i' = 0
    /\ pc' = IF Len(graph) > 0 THEN "check_conf" ELSE "serialize"
    /\ trace' = Append(trace, Ev("fixed_services", -1))
    /\ UNCHANGED <<env, config_dir, compose_file, outcome, arch, graph, heap,
                   default_bitcoin_conf, node_conf, k, conf_file, build, ip_addr,
                   allocated, prometheus_nodes, dump_raised>>

\* lines 130-137: the node's conf file must be a file under ./config
CheckConfFile ==
    /\ pc = "check_conf"
    /\ trace' = Append(trace, Ev("check_conf", i))
    /\ conf_file' = Get(graph[i + 1].conf, DEFAULT_CONF)
    /\ IF conf_file' \in DOMAIN config_dir
       THEN pc' = "resolve_version" /\ outcome' = outcome
       ELSE Raise("SystemExit")
    /\ UNCHANGED <<env, config_dir, compose_file, arch, graph, heap,
                   default_bitcoin_conf, node_conf, k, i, build, ip_addr, allocated,
                   services, prometheus_nodes, dump_raised>>

\* lines 139-160: a git branch to build, or a release to download
ResolveVersion ==
    /\ pc = "resolve_version"
    /\ trace' = Append(trace, Ev("resolve", i))
    /\ LET version == graph[i + 1].version
           parts == split(version, "#")
       IN  IF IsGitBranch(version)
           THEN IF Len(parts) = 2
                THEN /\ build' = BuildFromSource(parts[1], parts[2])
                     /\ pc' = "allocate" /\ outcome' = outcome
                ELSE /\ build' = build
                     /\ Raise("ValueError")
           ELSE /\ build' = BuildFromRelease(version, arch)
                /\ pc' = "allocate" /\ outcome' = outcome
    /\ UNCHANGED <<env, config_dir, compose_file, arch, graph, heap,
                   default_bitcoin_conf, node_conf, k, i, conf_file, ip_addr, allocated,
                   services, prometheus_nodes, dump_raised>>

\* AllocateAddress with the call hoisted out of the loop: one address for all
AllocateAddress_once ==
    /\ pc = "allocate"
    /\ trace' = Append(trace, Ev("allocate", i))
    /\ LET free == generate_ip_addr(subnet_hosts, {})
       IN  \E a \in free :
               /\ ip_addr' = IF i = 0 THEN a ELSE ip_addr
               /\ allocated' = IF i = 0 THEN <<a>> ELSE allocated
               /\ pc' = "add_services" /\ outcome' = outcome
    /\ UNCHANGED <<env, config_dir, compose_file, arch, graph, heap,
                   default_bitcoin_conf, node_conf, k, i, conf_file, build, services,
                   prometheus_nodes, dump_raised>>

\* line 163: ip_addr = generate_ip_addr(DEFAULT_SUBNET)
AllocateAddress ==
    /\ pc = "allocate"
    /\ trace' = Append(trace, Ev("allocate", i))
    /\ LET free == generate_ip_addr(subnet_hosts, {allocated[j] : j \in 1..Len(allocated)})
       IN  IF free = {}
           THEN /\ ip_addr' = ip_addr
                /\ allocated' = allocated
                /\ Raise("AddressSpaceExhausted")
           ELSE \E a \in free :
                    /\ ip_addr' = a
                    /\ allocated' = Append(allocated, a)
                    /\ pc' = "add_services" /\ outcome' = outcome
    /\ UNCHANGED <<env, config_dir, compose_file, arch, graph, heap,
                   default_bitcoin_conf, node_conf, k, i, conf_file, build, services,
                   prometheus_nodes, dump_raised>>

\* lines 166-188: bitcoin-node-<i> and prom-exporter-node-<i>, next node
AddNodeServices ==
    /\ pc = "add_services"
    /\ trace' = Append(trace, Ev("assemble", i))
    /\ services' = services \o <<NodeService(i, build, conf_file, ip_addr),
                                 ExporterService(i)>>
    /\ i' = i + 1
    /\ pc' = IF i + 1 < Len(graph) THEN "check_conf" ELSE "serialize"
    /\ UNCHANGED <<env, config_dir, compose_file, outcome, arch, graph, heap,
                   default_bitcoin_conf, node_conf, k, conf_file, build, ip_addr,
                   allocated, prometheus_nodes, dump_raised>>

\* lines 190-210: open docker-compose.yml for writing and dump the document
\* (yaml.dump writes the services in key order).
\* open() may raise (nothing is created), yaml.dump may raise after the file
\* was created and truncated; `except Exception` logs either and the function
\* returns.
Serialize ==
    /\ pc = "serialize"
    /\ trace' = Append(trace, Ev("serialize", -1))
    /\ \E result \in {"written", "open_raises", "dump_raises"} :
        /\ compose_file' =
              CASE result = "written" -> [state |-> "complete", doc |-> yaml_dump(services)]
                [] result = "open_raises" -> compose_file
                [] result = "dump_raises" -> [state |-> "partial", doc |-> <<>>]
        /\ dump_raised' = (result = "dump_raises")
    /\ pc' = "done"
    /\ outcome' = "returned"
    /\ UNCHANGED <<env, config_dir, arch, graph, heap, default_bitcoin_conf, node_conf,
                   k, i, conf_file, build, ip_addr, allocated, services,
                   prometheus_nodes>>

Next ==
    \/ GetArchitecture
    \/ RemovePrevious
    \/ ReadGraph
    \/ ReadDefaultConf
    \/ CopyDefaultConf
    \/ ApplyNodeOptions
    \/ WriteNodeConf
    \/ GeneratePrometheusConfig
    \/ AddFixedServices
    \/ CheckConfFile
    \/ ResolveVersion
    \/ AllocateAddress
    \/ AddNodeServices
    \/ Serialize

Spec == Init /\ [][Next]_vars

NextConfigs ==
    \/ ReadDefaultConf
    \/ CopyDefaultConf
    \/ ApplyNodeOptions
    \/ WriteNodeConf

SpecConfigs == InitConfigs /\ [][NextConfigs]_vars

\* ---------------------------------------------------------------- helpers
Fatal == pc = "done" /\ outcome \notin {"running", "returned"}
Returned == pc = "done" /\ outcome = "returned"

IsPrefix(a, b) == Len(a) <= Len(b) /\ \A j \in 1..Len(a) : a[j] = b[j]

\* The node services of a service list
NodeServices(doc) == { j \in 1..Len(doc) : doc[j].name = "bitcoin-node" }

\* The override string of the node write_bitcoin_configs is at
CurrentOptions == Get(graph[k + 1].bitcoin_config, <<>>)

\* An override string as the specification reads it: the non-empty trimmed
\* tokens, a token's key and value split at its first '='
NonEmpty(t) == t # <<>>
Tokens(str) ==
    LET raw == split(str, ",")
    IN  SelectSeq([j \in 1..Len(raw) |-> strip(raw[j])], NonEmpty)
KeyOf(t) == IF Contains(t, "=") THEN SubSeq(t, 1, IndexOf(t, "=") - 1) ELSE t
ValueOf(t) == IF Contains(t, "=") THEN SubSeq(t, IndexOf(t, "=") + 1, Len(t)) ELSE <<"1">>
CountOf(t, c) == Cardinality({j \in 1..Len(t) : t[j] = c})

\* The section the specification resolves from a base section and an override
OverlayOf(base, str) ==
    LET ts == Tokens(str)
        named == {KeyOf(ts[j]) : j \in 1..Len(ts)}
        last(key) == CHOOSE j \in 1..Len(ts) :
                        /\ KeyOf(ts[j]) = key
                        /\ \A m \in (j + 1)..Len(ts) : KeyOf(ts[m]) # key
    IN  [x \in DOMAIN base \cup named |->
            IF x \in named THEN ValueOf(ts[last(x)]) ELSE base[x]]

\* ------------------------------------------------------------------- claims

\* C1: a run that a fatal condition ends (unreadable graph file, unreadable
\* base template, a missing user configuration file, address exhaustion, or
\* any other exception) leaves no docker-compose.yml, whether or not one
\* existed when the run started.
C1_NoArtifactAfterFatal == Fatal => compose_file.state = "absent"

\* C2: when yaml.dump raises after docker-compose.yml was opened for writing,
\* the run ends in an error and no docker-compose.yml is left.
C2_SerializationFailureFatal ==
    dump_raised => (Fatal /\ compose_file.state = "absent")

\* C3: every per-node file written so far holds the base template with only
\* that node's override applied, and the parsed base template still equals
\* the file it was parsed from.
C3_NodeConfigsIndependent ==
    (DEFAULT_CONF \in DOMAIN config_dir /\ DOMAIN default_bitcoin_conf # {}) =>
        LET base == config_dir[DEFAULT_CONF]
            expected(node) ==
                IF NETWORK \in DOMAIN base
                THEN [base EXCEPT ![NETWORK] =
                        OverlayOf(base[NETWORK], Get(node.bitcoin_config, <<>>))]
                ELSE base
        IN  /\ \A j \in 1..k :
                config_dir[NodeConfName(graph[j].id)] = expected(graph[j])
            /\ (k = Len(graph)) => dump_bitcoin_conf(default_bitcoin_conf, heap) = base

\* C4: an override string whose tokens hold at most one '=' each turns the
\* section it is applied to into the section that maps every key the
\* override names to the value of its rightmost token ("1" for a bare token)
\* and every other key to the value it had; empty tokens change nothing.
C4_OverlayRule ==
    [][ ( /\ pc = "apply_options"
          /\ NETWORK \in DOMAIN node_conf
          /\ \A j \in 1..Len(Tokens(CurrentOptions)) :
                 CountOf(Tokens(CurrentOptions)[j], "=") <= 1 )
        => ( /\ pc' = "write_node_conf"
             /\ heap'[node_conf[NETWORK]] =
                    OverlayOf(heap[node_conf[NETWORK]], CurrentOptions) ) ]_vars

\* "a=a,a" on a section with keys a and b: the rightmost token of key a is
\* bare, key b is not named
C4_Witness ==
    /\ pc = "write_node_conf"
    /\ CurrentOptions = <<"a", "=", "a", ",", "a">>
    /\ NETWORK \in DOMAIN node_conf
    /\ heap[node_conf[NETWORK]] = [x \in {KeyA, KeyB} |-> IF x = KeyA THEN <<"1">> ELSE ValX]

\* C5: a node's build is Dockerfile_build exactly when its (non-empty)
\* version holds both '/' and '#'; any other version gives Dockerfile_release
\* with the URL built from the version and the architecture.
C5_VersionClassification ==
    \A j \in NodeServices(services) :
        LET version == graph[services[j].index + 1].version
            b == services[j].build
        IN  version # <<>> =>
                IF Contains(version, "/") /\ Contains(version, "#")
                THEN b.dockerfile = "Dockerfile_build"
                ELSE /\ b.dockerfile = "Dockerfile_release"
                     /\ b.BITCOIN_URL = BitcoinUrl(version, arch)

\* C6: a run that returns has called generate_ip_addr once per node, in
\* iteration order, and the node services carry pairwise distinct addresses.
C6_OneAddressPerNode ==
    Returned =>
        /\ Len(allocated) = Len(graph)
        /\ Cardinality(NodeServices(services)) = Len(graph)
        /\ \A j \in NodeServices(services) :
               services[j].ipv4_address = allocated[services[j].index + 1]
        /\ \A j1, j2 \in NodeServices(services) :
               j1 # j2 => services[j1].ipv4_address # services[j2].ipv4_address

C6_Witness ==
    /\ Returned
    /\ Len(graph) = MaxNodes
    /\ compose_file.state = "complete"
    /\ Cardinality({compose_file.doc[j].ipv4_address :
                       j \in NodeServices(compose_file.doc)}) = MaxNodes

\* The steps the ordering claim names
OrderedSteps ==
    {"get_architecture", "remove", "read_graph", "prometheus", "overlay", "write",
     "allocate", "resolve", "assemble", "fixed_services", "serialize"}
IsOrderedStep(e) == e.step \in OrderedSteps
StepsTaken == SelectSeq(trace, IsOrderedStep)

RECURSIVE PerNode(_, _, _)
PerNode(steps, n, count) ==
    IF n >= count THEN <<>>
    ELSE [j \in 1..Len(steps) |-> Ev(steps[j], n)] \o PerNode(steps, n + 1, count)

\* The order the claim states
ClaimedOrder(count) ==
    <<Ev("get_architecture", -1), Ev("remove", -1), Ev("read_graph", -1),
      Ev("prometheus", -1)>>
    \o PerNode(<<"overlay", "write", "allocate", "resolve", "assemble">>, 0, count)
    \o <<Ev("fixed_services", -1), Ev("serialize", -1)>>

\* The order of the code
CodeOrder(count) ==
    <<Ev("get_architecture", -1), Ev("remove", -1), Ev("read_graph", -1)>>
    \o PerNode(<<"overlay", "write">>, 0, count)
    \o <<Ev("prometheus", -1), Ev("fixed_services", -1)>>
    \o PerNode(<<"resolve", "allocate", "assemble">>, 0, count)
    \o <<Ev("serialize", -1)>>

\* C7 as stated: the steps of every run follow the order architecture,
\* remove, load, monitoring configuration, then per node overlay, write,
\* allocate, resolve, assemble, then fixed services, then serialize.
C7_ClaimedStepOrder == IsPrefix(StepsTaken, ClaimedOrder(Len(graph_file.nodes)))

\* C7 as amended: the steps of every run follow the order architecture,
\* remove, load, then per node overlay and write, then monitoring
\* configuration, fixed services, then per node resolve, allocate, assemble,
\* then serialize; a run that returns has taken all of them, each once.
C7_StepOrder ==
    /\ IsPrefix(StepsTaken, CodeOrder(Len(graph_file.nodes)))
    /\ Returned => StepsTaken = CodeOrder(Len(graph_file.nodes))

C7_Witness ==
    /\ Returned
    /\ Len(graph) = MaxNodes
    /\ StepsTaken = CodeOrder(MaxNodes)

\* C8: no serialized docker-compose.yml holds a release build whose
\* architecture is None or empty.
C8_NoUnknownArchitecture ==
    compose_file.state = "complete" =>
        \A j \in NodeServices(compose_file.doc) :
            LET b == compose_file.doc[j].build
            IN  b.dockerfile = "Dockerfile_release" => (b.ARCH.some /\ b.ARCH.val # "")

\* C9: in a serialized docker-compose.yml every node service mounts the
\* file config/bitcoin.conf.<node id> of its own node, and that file exists.
C9_MountsNodeArtifact ==
    compose_file.state = "complete" =>
        \A j \in NodeServices(compose_file.doc) :
            LET s == compose_file.doc[j]
                artifact == NodeConfName(graph[s.index + 1].id)
            IN  s.volumes = <<artifact>> /\ artifact \in DOMAIN config_dir

\* C10: an override in which some token holds one or more '=' is applied
\* without an exception, every such token split at its first '='.
C10_SplitOnFirstEquals ==
    [][ ( /\ pc = "apply_options"
          /\ NETWORK \in DOMAIN node_conf
          /\ \E j \in 1..Len(Tokens(CurrentOptions)) :
                 CountOf(Tokens(CurrentOptions)[j], "=") >= 1 )
        => ( /\ pc' = "write_node_conf"
             /\ heap'[node_conf[NETWORK]] =
                    OverlayOf(heap[node_conf[NETWORK]], CurrentOptions) ) ]_vars

====
